---- MODULE Spec2Model ----
(***************************************************************************)
(* scripts/backfill_snapshots.py: restoring the daily history of           *)
(* budget_amount, target_cpa and target_roas from change events and the    *)
(* current snapshot, and writing one dated table per day.                  *)
(*                                                                         *)
(* A DataFrame is a sequence of rows; a row is a record whose fields are   *)
(* the columns.  A missing cell is NaN.  Dates are day numbers, the window *)
(* is 1..WindowLen (29 days in the program).                               *)
(***************************************************************************)
EXTENDS Integers, Sequences, FiniteSets, TLC

VARIABLES
    change_history,              \* rows fetched from ChangeHistory (line 121)
    campaign_ids,                \* SELECT DISTINCT campaign_id (line 146)
    current_bids_budgets,        \* SELECT * FROM bid_budget (line 155)
    budgets,                     \* line 127-130
    bids,                        \* line 136-138
    restored_budgets,            \* line 166
    restored_target_cpas,        \* line 168
    restored_target_roas,        \* line 170
    restored_bid_budget_history, \* line 173
    pc,                          \* position of main
    date_idx,                    \* position of the loop of line 179
    outcomes,                    \* what each write of this run did, in order
    tables,                      \* the destination: table_id -> rows
    tables_at_start,             \* the destination when this run started
    run,                         \* number of the current run
    prev_pc                      \* how the previous run ended

vars == <<change_history, campaign_ids, current_bids_budgets, budgets, bids,
          restored_budgets, restored_target_cpas, restored_target_roas,
          restored_bid_budget_history, pc, date_idx, outcomes, tables,
          tables_at_start, run, prev_pc>>

-----------------------------------------------------------------------------
(* Bounds *)

WindowLen == 3

MaxRows == 2

MaxRuns == 2

Campaigns == {1, 2}

-----------------------------------------------------------------------------
(* Cells and frames *)

\* A missing cell (numpy NaN).  Budgets and bids are whole micros >= 0.
NaN == 0 - 1

isnull(v) == v = NaN

empty(df) == Len(df) = 0

Min(S) == CHOOSE x \in S : \A y \in S : x <= y

Max(S) == CHOOSE x \in S : \A y \in S : x >= y

RECURSIVE Concat(_)
Concat(ss) == IF ss = <<>> THEN <<>> ELSE Head(ss) \o Concat(Tail(ss))

\* merge_left with how="inner": the left rows that match nothing are dropped.
merge_inner(left, right, on, right_cols) ==
    LET added == right_cols \ on
        Matches(l) == SelectSeq(right, LAMBDA r : \A k \in on : r[k] = l[k])
        Joined(l) == [j \in 1..Len(Matches(l)) |->
                         l @@ [c \in added |-> Matches(l)[j][c]]]
    IN Concat([n \in 1..Len(left) |-> Joined(left[n])])

\* pd.merge(left, right, on=on, how="left") for a right frame with columns
\* right_cols: every left row in order, once per matching right row in
\* the right frame's order, or once with NaN cells when nothing matches.
merge_left(left, right, on, right_cols) ==
    LET added == right_cols \ on
        Matches(l) == SelectSeq(right, LAMBDA r : \A k \in on : r[k] = l[k])
        Joined(l) ==
            IF Matches(l) = <<>>
            THEN << l @@ [c \in added |-> NaN] >>
            ELSE [j \in 1..Len(Matches(l)) |->
                      l @@ [c \in added |-> Matches(l)[j][c]]]
    IN Concat([n \in 1..Len(left) |-> Joined(left[n])])

\* bfill that fills nothing: the column as it is.
bfill_nothing(df, col) == [n \in 1..Len(df) |-> df[n][col]]

\* joined.groupby("campaign_id")[col].bfill(): the next non-null cell of the
\* column at or below the row, among the rows of the same campaign_id.
bfill(df, col) ==
    [n \in 1..Len(df) |->
        LET below == {j \in n..Len(df) :
                         /\ df[j].campaign_id = df[n].campaign_id
                         /\ ~isnull(df[j][col])}
        IN IF below = {} THEN NaN ELSE df[Min(below)][col]]

\* ffill that carries the first non-null cell of the campaign, not the last.
ffill_first(df, col) ==
    [n \in 1..Len(df) |->
        LET above == {j \in 1..n :
                         /\ df[j].campaign_id = df[n].campaign_id
                         /\ ~isnull(df[j][col])}
        IN IF above = {} THEN NaN ELSE df[Min(above)][col]]

\* joined.groupby("campaign_id")[col].ffill(): the last non-null cell of the
\* column at or above the row, among the rows of the same campaign_id.
ffill(df, col) ==
    [n \in 1..Len(df) |->
        LET above == {j \in 1..n :
                         /\ df[j].campaign_id = df[n].campaign_id
                         /\ ~isnull(df[j][col])}
        IN IF above = {} THEN NaN ELSE df[Max(above)][col]]

\* series.fillna(other): the cell, or other's cell of the same row when null.
fillna(series, other) ==
    [n \in 1..Len(series) |-> IF isnull(series[n]) THEN other[n] ELSE series[n]]

\* joined[name].astype(int) raises on a NaN cell and keeps whole numbers.
astype_int_raises(df, name) == \E n \in 1..Len(df) : isnull(df[n][name])

-----------------------------------------------------------------------------
(* format_partial_change_history *)

old_column(dimension_name) ==
    CASE dimension_name = "budget_amount" -> "old_budget_amount"
      [] dimension_name = "target_cpa" -> "old_target_cpa"

new_column(dimension_name) ==
    CASE dimension_name = "budget_amount" -> "new_budget_amount"
      [] dimension_name = "target_cpa" -> "new_target_cpa"

\* df["change_date"].str.split(expand=True)[0]: the first of the
\* whitespace-separated parts of "YYYY-MM-DD hh:mm:ss", the date.
split_first(change_date) == change_date[1]

KeyLess(a, b) == a[1] < b[1] \/ (a[1] = b[1] /\ a[2] < b[2])

RECURSIVE SortKeys(_)
SortKeys(keys) ==
    IF keys = {} THEN <<>>
    ELSE LET least == CHOOSE k \in keys : \A o \in keys \ {k} : KeyLess(k, o)
         IN <<least>> \o SortKeys(keys \ {least})

\* df.groupby(["date", "campaign_id"]).last(): one row per group, in key
\* order; each column holds the last non-null cell of the group's rows.
groupby_last(df) ==
    LET keys == {<<df[n].date, df[n].campaign_id>> : n \in 1..Len(df)}
        order == SortKeys(keys)
        last(key, col) ==
            LET cells == {n \in 1..Len(df) :
                             /\ <<df[n].date, df[n].campaign_id>> = key
                             /\ ~isnull(df[n][col])}
            IN IF cells = {} THEN NaN ELSE df[Max(cells)][col]
    IN [g \in 1..Len(order) |->
           [date |-> order[g][1], campaign_id |-> order[g][2],
            value_old |-> last(order[g], "value_old"),
            value_new |-> last(order[g], "value_new")]]

format_partial_change_history(df, dimension_name) ==
    LET renamed ==
            [n \in 1..Len(df) |->
                [date |-> split_first(df[n].change_date),
                 campaign_id |-> df[n].campaign_id,
                 value_old |-> df[n][old_column(dimension_name)],
                 value_new |-> df[n][new_column(dimension_name)]]]
    IN groupby_last(renamed)

-----------------------------------------------------------------------------
(* restore_history *)

EventColumns == {"date", "campaign_id", "value_old", "value_new"}

SnapshotColumns == {"campaign_id", "budget_amount", "target_cpa", "target_roas"}

select_columns(df, name) ==
    [n \in 1..Len(df) |->
        ("date" :> df[n].date) @@ ("campaign_id" :> df[n].campaign_id)
            @@ (name :> df[n][name])]

\* Lines 40-53: the branch of a non-empty partial_history.
fill_from_events(placeholder_df, partial_history, current_values, name) ==
    LET joined == merge_left(placeholder_df, partial_history,
                             {"campaign_id", "date"}, EventColumns)
        filled_backward == bfill(joined, "value_old")
        filled_forward == fillna(ffill(joined, "value_new"), filled_backward)
        with_fill == [n \in 1..Len(joined) |->
                         joined[n] @@ ("filled_forward" :> filled_forward[n])]
        with_current == merge_left(with_fill, current_values,
                                   {"campaign_id"}, SnapshotColumns)
    IN [n \in 1..Len(with_current) |->
           [with_current[n] EXCEPT ![name] =
               IF isnull(with_current[n].filled_forward)
               THEN with_current[n][name]
               ELSE with_current[n].filled_forward]]

\* Lines 55-58: the branch of an empty partial_history.
fill_from_current(placeholder_df, current_values) ==
    merge_left(placeholder_df, current_values, {"campaign_id"}, SnapshotColumns)

\* The frame restore_history returns, or raised when astype(int) raises.
restore_history(placeholder_df, partial_history, current_values, name) ==
    LET joined == IF ~empty(partial_history)
                  THEN fill_from_events(placeholder_df, partial_history,
                                        current_values, name)
                  ELSE fill_from_current(placeholder_df, current_values)
    IN IF name # "target_roas" /\ astype_int_raises(joined, name)
       THEN [raised |-> TRUE, df |-> <<>>]
       ELSE [raised |-> FALSE, df |-> select_columns(joined, name)]

-----------------------------------------------------------------------------
(* main: the window, the placeholders, the filters, the combination *)

dates == [d \in 1..WindowLen |-> d]

RECURSIVE SortedSeq(_)
SortedSeq(S) == IF S = {} THEN <<>> ELSE <<Min(S)>> \o SortedSeq(S \ {Min(S)})

\* itertools.product(campaign_ids, dates): campaign by campaign, each with
\* the dates of the window in ascending order.
placeholders(ids) ==
    LET id_list == SortedSeq(ids)
    IN Concat([c \in 1..Len(id_list) |->
                  [d \in 1..Len(dates) |->
                      [campaign_id |-> id_list[c], date |-> dates[d]]]])

\* Line 127: rows where a budget change occurred.
filter_budgets(history) ==
    SelectSeq(history, LAMBDA r : r.old_budget_amount > 0 /\ r.new_budget_amount > 0)

\* Line 136: rows where a bid change occurred.
filter_bids(history) == SelectSeq(history, LAMBDA r : r.old_target_cpa > 0)

\* Lines 129-130, 137-138: the filtered rows are formatted unless empty.
format_if_any(filtered, dimension_name) ==
    IF ~empty(filtered)
    THEN format_partial_change_history(filtered, dimension_name)
    ELSE <<>>

\* Lines 173-176: reduce(merge on ["date", "campaign_id"], how="left").
combine(restored_b, restored_c, restored_r) ==
    merge_left(merge_left(restored_b, restored_c, {"date", "campaign_id"},
                          {"date", "campaign_id", "target_cpa"}),
               restored_r, {"date", "campaign_id"},
               {"date", "campaign_id", "target_roas"})

\* Line 180: restored_bid_budget_history.loc[... ["date"] == date].
daily_history(history, date) == SelectSeq(history, LAMBDA r : r.date = date)

\* A table name without the date.
table_id_undated(date) == <<"bid_budgets", 0>>

\* Line 182: bid_budgets_YYYYMMDD, one table per date.
table_id(date) == <<"bid_budgets", date>>

-----------------------------------------------------------------------------
(* The destination.  write_data_to_bq loads the frame into the table under  *)
(* the given write disposition.                                             *)

table_exists(tbls, id) == id \in DOMAIN tbls

\* main passing the disposition that replaces a table.
write_disposition_truncate == "WRITE_TRUNCATE"

\* Line 187: the disposition main passes to write_data_to_bq.
write_disposition == "WRITE_EMPTY"

\* WRITE_EMPTY refuses a table that exists (Conflict); any other disposition
\* replaces it.
write_conflicts(tbls, id, disposition) ==
    disposition = "WRITE_EMPTY" /\ table_exists(tbls, id)

load_table(tbls, id, data) == (id :> data) @@ tbls

\* Lines 179, 188-189: Conflict is caught and logged, and the loop goes on
\* to the next date or ends after the last one.
next_date(idx) == IF idx = Len(dates) THEN "done" ELSE "write"

\* Conflict not caught.
on_conflict_raised(idx) == "aborted"

on_conflict(idx) == next_date(idx)

\* Every exception caught, as Conflict is.
on_other_error_caught(idx) == next_date(idx)

\* Lines 183-189: no other exception is caught: it ends main.
on_other_error(idx) == "aborted"

-----------------------------------------------------------------------------
(* Inputs *)

ChangeKinds == {"budget", "target_cpa", "target_cpa_removed"}

\* A row of the change history of campaign c on day d.  A row changes the
\* budget or the bid; the columns of what it leaves alone are NaN, and a
\* removed target_cpa has no new value.  The amounts tell the rows apart.
ChangeRow(c, d, kind) ==
    [campaign_id |-> c,
     change_date |-> <<d, "12:00:00">>,
     old_budget_amount |-> IF kind = "budget" THEN 10 * d ELSE NaN,
     new_budget_amount |-> IF kind = "budget" THEN 10 * d + 1 ELSE NaN,
     old_target_cpa |-> IF kind = "budget" THEN NaN ELSE 10 * d + 2,
     new_target_cpa |-> IF kind = "target_cpa" THEN 10 * d + 3 ELSE NaN]

\* Change dates: the days of the window and the day after it.
ChangeRows ==
    {ChangeRow(c, d, kind) : c \in Campaigns, d \in 1..(WindowLen + 1),
                             kind \in ChangeKinds}

SeqsUpTo(S, n) == UNION {[1..m -> S] : m \in 0..n}

\* The change history arrives in chronological order.
Chronological(h) ==
    \A n \in 1..(Len(h) - 1) : h[n].change_date[1] <= h[n + 1].change_date[1]

SnapshotKinds == {"absent", "full", "no_roas"}

\* bid_budget holds at most one row per campaign; a campaign that does not
\* bid on ROAS has no target_roas.
SnapshotRow(c, kind) ==
    [campaign_id |-> c, budget_amount |-> 100 + c, target_cpa |-> 200 + c,
     target_roas |-> IF kind = "no_roas" THEN NaN ELSE 300 + c]

Snapshot(kinds) ==
    LET present == SortedSeq({c \in Campaigns : kinds[c] # "absent"})
    IN [n \in 1..Len(present) |-> SnapshotRow(present[n], kinds[present[n]])]

\* Every campaign of the same kind.
Snapshots == {Snapshot([c \in Campaigns |-> kind]) : kind \in SnapshotKinds}

\* A table an earlier day's run wrote (the windows of two days overlap).
EarlierRows(d) ==
    << [date |-> d, campaign_id |-> 1, budget_amount |-> 0,
        target_cpa |-> 0, target_roas |-> 0] >>

EarlierTables(ds) == [id \in {table_id(d) : d \in ds} |-> EarlierRows(id[2])]

-----------------------------------------------------------------------------
(* main *)

StartOfRun ==
    /\ budgets = <<>>
    /\ bids = <<>>
    /\ restored_budgets = <<>>
    /\ restored_target_cpas = <<>>
    /\ restored_target_roas = <<>>
    /\ restored_bid_budget_history = <<>>
    /\ pc = "extract"
    /\ date_idx = 1
    /\ outcomes = <<>>
    /\ tables_at_start = tables

\* The whole of main against a destination that may hold earlier tables.
Init ==
    /\ change_history \in {<<>>, <<ChangeRow(1, 2, "budget")>>}
    /\ campaign_ids \in {{1}, {1, 2}}
    /\ current_bids_budgets \in
           {Snapshot([c \in Campaigns |-> k]) : k \in {"full", "absent"}}
    /\ tables \in {EarlierTables(ds) : ds \in SUBSET (1..WindowLen)}
    /\ run = 1
    /\ prev_pc = "none"
    /\ StartOfRun

\* The restoration alone, over every input within the bounds.
InitRestore ==
    /\ change_history \in {h \in SeqsUpTo(ChangeRows, MaxRows) : Chronological(h)}
    /\ campaign_ids \in {{1}, Campaigns}
    /\ current_bids_budgets \in Snapshots
    /\ tables = EarlierTables({})
    /\ run = 1
    /\ prev_pc = "none"
    /\ StartOfRun

inputs == <<change_history, campaign_ids, current_bids_budgets>>

restored == <<restored_budgets, restored_target_cpas, restored_target_roas,
              restored_bid_budget_history>>

sink == <<date_idx, outcomes, tables, tables_at_start, run, prev_pc>>

\* Lines 127-141.
FormatChangeHistory ==
    /\ pc = "extract"
    /\ budgets' = format_if_any(filter_budgets(change_history), "budget_amount")
    /\ bids' = format_if_any(filter_bids(change_history), "target_cpa")
    /\ pc' = "restore_budgets"
    /\ UNCHANGED <<inputs, restored, sink>>

\* Line 166.
RestoreBudgets ==
    /\ pc = "restore_budgets"
    /\ LET r == restore_history(placeholders(campaign_ids), budgets,
                                current_bids_budgets, "budget_amount")
       IN /\ restored_budgets' = r.df
          /\ pc' = IF r.raised THEN "raised" ELSE "restore_target_cpas"
    /\ UNCHANGED <<inputs, budgets, bids, restored_target_cpas,
                   restored_target_roas, restored_bid_budget_history, sink>>

\* Line 168.
RestoreTargetCpas ==
    /\ pc = "restore_target_cpas"
    /\ LET r == restore_history(placeholders(campaign_ids), bids,
                                current_bids_budgets, "target_cpa")
       IN /\ restored_target_cpas' = r.df
          /\ pc' = IF r.raised THEN "raised" ELSE "restore_target_roas"
    /\ UNCHANGED <<inputs, budgets, bids, restored_budgets,
                   restored_target_roas, restored_bid_budget_history, sink>>

\* Line 170: the history of target_roas is restored from bids.
RestoreTargetRoas ==
    /\ pc = "restore_target_roas"
    /\ LET r == restore_history(placeholders(campaign_ids), bids,
                                current_bids_budgets, "target_roas")
       IN /\ restored_target_roas' = r.df
          /\ pc' = IF r.raised THEN "raised" ELSE "combine"
    /\ UNCHANGED <<inputs, budgets, bids, restored_budgets,
                   restored_target_cpas, restored_bid_budget_history, sink>>

\* Lines 173-176.
Combine ==
    /\ pc = "combine"
    /\ restored_bid_budget_history' =
           combine(restored_budgets, restored_target_cpas, restored_target_roas)
    /\ pc' = "write"
    /\ UNCHANGED <<inputs, budgets, bids, restored_budgets,
                   restored_target_cpas, restored_target_roas, sink>>

data == <<inputs, budgets, bids, restored>>

\* Lines 179-187: the table of the date does not exist and is created.
WriteCreated ==
    /\ pc = "write"
    /\ ~write_conflicts(tables, table_id(dates[date_idx]), write_disposition)
    /\ tables' = load_table(tables, table_id(dates[date_idx]),
                   daily_history(restored_bid_budget_history, dates[date_idx]))
    /\ outcomes' = Append(outcomes, <<dates[date_idx], "created">>)
    /\ date_idx' = date_idx + 1
    /\ pc' = next_date(date_idx)
    /\ UNCHANGED <<data, tables_at_start, run, prev_pc>>

\* Lines 188-189: the table exists, the write raises Conflict.
WriteConflict ==
    /\ pc = "write"
    /\ write_conflicts(tables, table_id(dates[date_idx]), write_disposition)
    /\ outcomes' = Append(outcomes, <<dates[date_idx], "exists">>)
    /\ date_idx' = date_idx + 1
    /\ pc' = on_conflict(date_idx)
    /\ UNCHANGED <<data, tables, tables_at_start, run, prev_pc>>

\* Lines 183-187: the write raises anything else (permission, quota, a
\* malformed identifier).
WriteError ==
    /\ pc = "write"
    /\ outcomes' = Append(outcomes, <<dates[date_idx], "error">>)
    /\ date_idx' = IF on_other_error(date_idx) = "aborted"
                   THEN date_idx ELSE date_idx + 1
    /\ pc' = on_other_error(date_idx)
    /\ UNCHANGED <<data, tables, tables_at_start, run, prev_pc>>

\* The process is terminated from outside between two writes.
Terminate ==
    /\ pc = "write"
    /\ pc' = "killed"
    /\ UNCHANGED <<data, sink>>

\* The script is run again on the same day: the same inputs are fetched.
RunAgain ==
    /\ pc \in {"done", "aborted", "killed", "raised"}
    /\ run < MaxRuns
    /\ run' = run + 1
    /\ prev_pc' = pc
    /\ budgets' = <<>>
    /\ bids' = <<>>
    /\ restored_budgets' = <<>>
    /\ restored_target_cpas' = <<>>
    /\ restored_target_roas' = <<>>
    /\ restored_bid_budget_history' = <<>>
    /\ pc' = "extract"
    /\ date_idx' = 1
    /\ outcomes' = <<>>
    /\ tables_at_start' = tables
    /\ UNCHANGED <<inputs, tables>>

NextRestore ==
    \/ FormatChangeHistory
    \/ RestoreBudgets
    \/ RestoreTargetCpas
    \/ RestoreTargetRoas
    \/ Combine

Next ==
    \/ FormatChangeHistory
    \/ RestoreBudgets
    \/ RestoreTargetCpas
    \/ RestoreTargetRoas
    \/ Combine
    \/ WriteCreated
    \/ WriteConflict
    \/ WriteError
    \/ Terminate
    \/ RunAgain

Spec == Init /\ [][Next]_vars

SpecRestore == InitRestore /\ [][NextRestore]_vars

-----------------------------------------------------------------------------
(* Properties of the restoration *)

Window == 1..WindowLen

\* The wide table of line 173 has been built.
Built == pc \in {"write", "done", "aborted", "killed"}

RestoredAll == pc = "combine" \/ Built

\* The values a frame holds for a campaign, a date and a column.
ValuesAt(df, name, e, d) ==
    {df[n][name] : n \in {m \in 1..Len(df) :
                             df[m].campaign_id = e /\ df[m].date = d}}

\* The events of a campaign within the window.
EventsOf(events, e) ==
    {n \in 1..Len(events) : events[n].campaign_id = e /\ events[n].date \in Window}

\* The three calls of restore_history: the column, the events passed, whether
\* the call has returned, and the frame it returned.
RestoreCalls ==
    {[name |-> "budget_amount", events |-> budgets, df |-> restored_budgets,
      returned |-> pc = "restore_target_cpas" \/ pc = "restore_target_roas"
                   \/ RestoredAll],
     [name |-> "target_cpa", events |-> bids, df |-> restored_target_cpas,
      returned |-> pc = "restore_target_roas" \/ RestoredAll],
     [name |-> "target_roas", events |-> bids, df |-> restored_target_roas,
      returned |-> RestoredAll]}

SnapshotValue(e, name) ==
    LET rows == {n \in 1..Len(current_bids_budgets) :
                    current_bids_budgets[n].campaign_id = e}
    IN IF rows = {} THEN NaN
       ELSE current_bids_budgets[CHOOSE n \in rows : TRUE][name]

\* C1: the wide table holds exactly one row per active campaign and date of
\* the window, |E| x |D| rows in all, whatever the events and the snapshot.
C1_Cardinality ==
    Built =>
        /\ Len(restored_bid_budget_history) = Cardinality(campaign_ids) * WindowLen
        /\ \A e \in campaign_ids, d \in Window :
              Cardinality({n \in 1..Len(restored_bid_budget_history) :
                  /\ restored_bid_budget_history[n].campaign_id = e
                  /\ restored_bid_budget_history[n].date = d}) = 1

\* C1's case: a table built while the change history holds an event of a
\* campaign that is not active and an event of an active campaign on a day
\* outside the window.
C1_Witness ==
    /\ Built
    /\ \E n \in 1..Len(change_history) :
          /\ change_history[n].campaign_id \notin campaign_ids
          /\ split_first(change_history[n].change_date) \in Window
    /\ \E n \in 1..Len(change_history) :
          /\ change_history[n].campaign_id \in campaign_ids
          /\ split_first(change_history[n].change_date) \notin Window

\* The change events main extracts for a column: budgets at line 127, bids at
\* line 136, and none for target_roas.
ChangeEvents(name) ==
    CASE name = "budget_amount" -> budgets
      [] name = "target_cpa" -> bids
      [] name = "target_roas" -> <<>>

Attributes == {"budget_amount", "target_cpa", "target_roas"}

\* C2: a campaign with no change event of an attribute within the window has
\* its snapshot value of that attribute on every date.
C2_NoEventFallback ==
    Built =>
        \A name \in Attributes, e \in campaign_ids :
            EventsOf(ChangeEvents(name), e) = {} =>
                \A d \in Window :
                    ValuesAt(restored_bid_budget_history, name, e, d)
                        = {SnapshotValue(e, name)}

\* C3: a campaign whose only event is a -> b on date k has a before k and b
\* from k on, in the frame of every call of restore_history.
C3_StepFunction ==
    \A call \in RestoreCalls : call.returned =>
        \A e \in campaign_ids :
            \A n \in EventsOf(call.events, e) :
                (/\ EventsOf(call.events, e) = {n}
                 /\ ~isnull(call.events[n].value_old)
                 /\ ~isnull(call.events[n].value_new)) =>
                    \A d \in Window :
                        ValuesAt(call.df, call.name, e, d) =
                            {IF d < call.events[n].date
                             THEN call.events[n].value_old
                             ELSE call.events[n].value_new}

\* C3's case: budgets restored for a campaign whose only event falls on the
\* second day, with a snapshot value that is neither a nor b.
C3_Witness ==
    /\ RestoredAll
    /\ \E e \in campaign_ids :
          /\ \E n \in EventsOf(budgets, e) :
                EventsOf(budgets, e) = {n} /\ budgets[n].date = 2
          /\ ~isnull(SnapshotValue(e, "budget_amount"))

\* The value the events of a campaign give a date: the new value of the
\* latest event on or before it, else the old value of the earliest event.
StepValue(events, e, d) ==
    LET mine == EventsOf(events, e)
        sofar == {n \in mine : events[n].date <= d}
        latest == CHOOSE n \in sofar : \A m \in sofar : events[m].date <= events[n].date
        earliest == CHOOSE n \in mine : \A m \in mine : events[n].date <= events[m].date
    IN IF sofar # {} THEN events[latest].value_new ELSE events[earliest].value_old

RawGroup(filtered, date, e) ==
    {n \in 1..Len(filtered) :
        /\ split_first(filtered[n].change_date) = date
        /\ filtered[n].campaign_id = e}

LastRowWins(filtered, events, dimension_name) ==
    /\ \A n \in 1..Len(filtered) :
          Cardinality({g \in 1..Len(events) :
              /\ events[g].date = split_first(filtered[n].change_date)
              /\ events[g].campaign_id = filtered[n].campaign_id}) = 1
    /\ \A g \in 1..Len(events) :
          LET group == RawGroup(filtered, events[g].date, events[g].campaign_id)
          IN /\ group # {}
             /\ events[g].value_old = filtered[Max(group)][old_column(dimension_name)]
             /\ events[g].value_new = filtered[Max(group)][new_column(dimension_name)]

\* C5: format_partial_change_history returns one event per date and campaign,
\* with the old and the new value of the last row of the group.
C5_LastRowWins ==
    pc # "extract" =>
        /\ LastRowWins(filter_budgets(change_history), budgets, "budget_amount")
        /\ LastRowWins(filter_bids(change_history), bids, "target_cpa")

\* C8: no restored frame and no row of the wide table holds a null, and no
\* run gets as far as the wide table with an active campaign that has neither
\* an event nor a snapshot value of an attribute.
C8_NoNulls ==
    /\ \A call \in RestoreCalls :
          \A n \in 1..Len(call.df) : ~isnull(call.df[n][call.name])
    /\ \A n \in 1..Len(restored_bid_budget_history), name \in Attributes :
          ~isnull(restored_bid_budget_history[n][name])
    /\ Built =>
          \A call \in RestoreCalls, e \in campaign_ids :
              ~(EventsOf(call.events, e) = {} /\ isnull(SnapshotValue(e, call.name)))

-----------------------------------------------------------------------------
(* Properties of the writes *)

Outcome(k) == outcomes[k][2]

Attempted(k) == outcomes[k][1]

Daily(d) == daily_history(restored_bid_budget_history, d)

\* C4: a run after a run that wrote or found every date gets "already
\* exists" for every date, adds nothing and leaves every table as it was.
C4_IdempotentRerun ==
    (run > 1 /\ prev_pc = "done") =>
        /\ pc # "raised"
        /\ tables = tables_at_start
        /\ \A k \in 1..Len(outcomes) : Outcome(k) # "created"
        /\ pc = "done" => outcomes = [k \in 1..WindowLen |-> <<dates[k], "exists">>]

\* C4's case: the second run has ended after a first run that created tables.
C4_Witness ==
    /\ run = 2
    /\ prev_pc = "done"
    /\ pc = "done"
    /\ \E d \in Window : tables[table_id(d)] # EarlierRows(d)

\* C6: only another error ends the loop early; the writes go through the
\* dates in window order, one each; a run that ends with no other error has
\* created the table of every date that had none.
C6_ConflictNeverBlocks ==
    /\ pc = "aborted" => (outcomes # <<>> /\ Outcome(Len(outcomes)) = "error")
    /\ pc \in {"write", "done", "aborted", "killed"} =>
          /\ Len(outcomes) <= WindowLen
          /\ \A k \in 1..Len(outcomes) : Attempted(k) = dates[k]
    /\ pc = "write" => date_idx = Len(outcomes) + 1
    /\ pc = "done" =>
          /\ Len(outcomes) = WindowLen
          /\ \A k \in 1..WindowLen :
                ~table_exists(tables_at_start, table_id(dates[k])) =>
                    /\ Outcome(k) = "created"
                    /\ table_exists(tables, table_id(dates[k]))
                    /\ tables[table_id(dates[k])] = Daily(dates[k])

\* C6's case: a run that ended after a date that existed and a later date
\* that did not.
C6_Witness ==
    /\ pc = "done"
    /\ \E j, k \in 1..Len(outcomes) :
          j < k /\ Outcome(j) = "exists" /\ Outcome(k) = "created"

\* C7: a write that fails with another error is the last write of the run,
\* the run is aborted, the tables of later dates are as they were and the
\* tables created for earlier dates hold what was written.
C7_OtherErrorAborts ==
    /\ \A k \in 1..Len(outcomes) :
          Outcome(k) = "error" => (k = Len(outcomes) /\ pc = "aborted")
    /\ pc = "aborted" =>
          /\ \A k \in 1..Len(outcomes) : Attempted(k) = dates[k]
          /\ \A k \in 1..Len(outcomes) :
                Outcome(k) = "created" => tables[table_id(dates[k])] = Daily(dates[k])
          /\ \A k \in Len(outcomes)..WindowLen :
                /\ table_exists(tables, table_id(dates[k]))
                       = table_exists(tables_at_start, table_id(dates[k]))
                /\ table_exists(tables, table_id(dates[k])) =>
                       tables[table_id(dates[k])] = tables_at_start[table_id(dates[k])]

\* C7's case: a run aborted at the second date after creating the first.
C7_Witness ==
    /\ pc = "aborted"
    /\ Len(outcomes) = 2
    /\ Outcome(1) = "created"
    /\ ~table_exists(tables, table_id(dates[2]))

\* C10: a table that exists is never created again nor changed, and a run
\* that ends creates exactly the tables that were missing when it started.
C10_CreatedAtMostOnce ==
    /\ [][\A id \in DOMAIN tables :
              table_exists(tables', id) /\ tables'[id] = tables[id]]_vars
    /\ [](pc = "done" =>
              /\ \A d \in Window : table_exists(tables, table_id(d))
              /\ {Attempted(k) : k \in {j \in 1..Len(outcomes) : Outcome(j) = "created"}}
                     = {d \in Window : ~table_exists(tables_at_start, table_id(d))})

\* C10's case: a run that ended after a run that stopped part of the way,
\* finding the tables that run created and creating the rest.
C10_Witness ==
    /\ run = 2
    /\ prev_pc \in {"aborted", "killed"}
    /\ pc = "done"
    /\ \E j, k \in 1..Len(outcomes) :
          /\ Outcome(j) = "exists"
          /\ Outcome(k) = "created"
          /\ tables[table_id(Attempted(j))] = Daily(Attempted(j))

====
